---- MODULE Spec2Model ----
(***************************************************************************)
(* Model of graph_build/recipe_greap_gen.py: the knowledge-graph builder   *)
(* RecipeKnowledgeGraphBuilder (concept id allocation, the predefined      *)
(* ontology, process_recipe, synonym generation and language tagging) fed  *)
(* by KimiRecipeParser.parse_recipe, and the retry loop of call_kimi_api.  *)
(*                                                                         *)
(* Text that the code inspects character by character (the category        *)
(* string, a recipe name, a synonym) is a tuple of characters; a Chinese   *)
(* character is written as its pinyin syllable ("zao","can" is the         *)
(* two-character string 早餐), with a digit after it where two characters of  *)
(* the synonym tables share a syllable ("men" is 焖, "men2" is 闷).  Ids are  *)
(* TLA+ strings, built from the counters the way str() and the format      *)
(* specification 06d build them.                                           *)
(*                                                                         *)
(* A JSON value of the extracted record is a tagged value [kind, val]:     *)
(* kind is the Python type the value has after json.loads.                 *)
(***************************************************************************)
EXTENDS Integers, Sequences, FiniteSets, TLC

\* ---------------------------------------------------------------- bounds
\* process_recipe calls in one run
MaxCalls == 2
\* longest ingredients list and longest steps list of a record
MaxItems == 1
\* process_recipe calls in a run that exercises the category and difficulty
\* linkage
MaxLinkCalls == 1
\* longest generated category string, in characters
MaxCategoryLen == 3
\* largest max_retries passed to call_kimi_api
MaxRetries == 3
\* most parts a generated recipe name is put together from
MaxNameParts == 3
\* longest generated synonym, in characters
MaxTermLen == 3

\* ------------------------------------------------------- python values
StrV(cs) == [kind |-> "str", val |-> cs]
IntV(n) == [kind |-> "int", val |-> n]
\* a float, val in tenths: FloatV(30) is 3.0, FloatV(25) is 2.5
FloatV(t) == [kind |-> "float", val |-> t]
BoolV(b) == [kind |-> "bool", val |-> b]
ListV(xs) == [kind |-> "list", val |-> xs]
NullV == [kind |-> "null", val |-> 0]

\* hash(x) succeeds: lists (and dicts) are unhashable
Hashable(v) == v.kind # "list"

\* x == k for an int key k of a dict: 3 == 3, 3.0 == 3, True == 1
EqualsIntKey(v, k) ==
    \/ v.kind = "int" /\ v.val = k
    \/ v.kind = "float" /\ v.val = 10 * k
    \/ v.kind = "bool" /\ k = (IF v.val THEN 1 ELSE 0)

\* ------------------------------------------------------- str operations
Whitespace == {" ", "tab"}

\* str.strip()
RECURSIVE LStrip(_)
LStrip(s) == IF s # <<>> /\ Head(s) \in Whitespace THEN LStrip(Tail(s)) ELSE s

RECURSIVE RStrip(_)
RStrip(s) ==
    IF s # <<>> /\ s[Len(s)] \in Whitespace
    THEN RStrip(SubSeq(s, 1, Len(s) - 1))
    ELSE s

\* strip() that strips nothing
StripNothing(s) == s

Strip(s) == RStrip(LStrip(s))

\* str.split(sep) for a one-character sep: the list of the pieces between
\* separators, [""] for the empty string
RECURSIVE SplitFrom(_, _, _)
SplitFrom(s, sep, cur) ==
    IF s = <<>> THEN <<cur>>
    ELSE IF Head(s) = sep THEN <<cur>> \o SplitFrom(Tail(s), sep, <<>>)
    ELSE SplitFrom(Tail(s), sep, Append(cur, Head(s)))

Split(s, sep) == SplitFrom(s, sep, <<>>)

\* sep.join(xs) for a list of strings
RECURSIVE Join(_, _)
Join(xs, sep) ==
    IF xs = <<>> THEN <<>>
    ELSE IF Len(xs) = 1 THEN xs[1]
    ELSE xs[1] \o <<sep>> \o Join(Tail(xs), sep)

\* str(n) for n >= 0
Str(n) == ToString(n)

\* f"{n:06d}": decimal, padded on the left with zeros to at least 6 characters
RECURSIVE ZeroPad(_, _)
ZeroPad(s, width) == IF Len(s) >= width THEN s ELSE ZeroPad("0" \o s, width)

Format06d(n) == ZeroPad(Str(n), 6)

\* ------------------------------------------------------------- ontology
\* RecipeKnowledgeGraphBuilder.__init__: the first id issued is base + 1
ConceptIdBase == 201000000

\* the mapping with the codes of requires_tool and has_step exchanged
RelationshipTypeMappingExchanged ==
    [has_ingredient |-> "801000001", requires_tool |-> "801000003",
     has_step |-> "801000002", belongs_to_category |-> "801000004",
     has_difficulty |-> "801000005", uses_method |-> "801000006",
     has_amount |-> "801000007", step_follows |-> "801000008",
     serves_people |-> "801000009", cooking_time |-> "801000010",
     prep_time |-> "801000011"]

\* _init_relationship_mappings
RelationshipTypeMapping ==
    [has_ingredient |-> "801000001", requires_tool |-> "801000002",
     has_step |-> "801000003", belongs_to_category |-> "801000004",
     has_difficulty |-> "801000005", uses_method |-> "801000006",
     has_amount |-> "801000007", step_follows |-> "801000008",
     serves_people |-> "801000009", cooking_time |-> "801000010",
     prep_time |-> "801000011"]

Predefined(id, type, name) ==
    [concept_id |-> id, concept_type |-> type, name |-> name]

\* _init_predefined_concepts, lines 300-337: the root and the top-level concepts
RootAndTopLevelConcepts ==
    << Predefined("100000000", "Root", <<"peng", "ren", "gai", "nian">>),
       Predefined("200000000", "Recipe", <<"cai", "pu">>),
       Predefined("300000000", "Ingredient", <<"shi", "cai">>),
       Predefined("400000000", "CookingMethod", <<"peng", "ren", "fang", "fa">>),
       Predefined("500000000", "CookingTool", <<"peng", "ren", "gong", "ju">>) >>

\* lines 339-374: the difficulty levels
DifficultyConcepts ==
    << Predefined("610000000", "DifficultyLevel", <<"yi", "xing">>),
       Predefined("620000000", "DifficultyLevel", <<"er", "xing">>),
       Predefined("630000000", "DifficultyLevel", <<"san", "xing">>),
       Predefined("640000000", "DifficultyLevel", <<"si", "xing">>),
       Predefined("650000000", "DifficultyLevel", <<"wu", "xing">>) >>

\* lines 376-439: the recipe categories
CategoryConcepts ==
    << Predefined("710000000", "RecipeCategory", <<"su", "cai">>),
       Predefined("720000000", "RecipeCategory", <<"hun", "cai">>),
       Predefined("730000000", "RecipeCategory", <<"shui", "chan">>),
       Predefined("740000000", "RecipeCategory", <<"zao", "can">>),
       Predefined("750000000", "RecipeCategory", <<"zhu", "shi">>),
       Predefined("760000000", "RecipeCategory", <<"tang", "lei">>),
       Predefined("770000000", "RecipeCategory", <<"tian", "pin">>),
       Predefined("780000000", "RecipeCategory", <<"yin", "liao">>),
       Predefined("790000000", "RecipeCategory", <<"tiao", "liao">>) >>

\* the list with the last category left out
PredefinedConceptsShort ==
    RootAndTopLevelConcepts \o DifficultyConcepts
        \o SubSeq(CategoryConcepts, 1, Len(CategoryConcepts) - 1)

\* _init_predefined_concepts: the list, in the order of the source
PredefinedConcepts == RootAndTopLevelConcepts \o DifficultyConcepts \o CategoryConcepts

\* category_mapping of process_recipe: name -> concept id, as (name, id) pairs
CategoryMapping ==
    { <<<<"su", "cai">>, "710000000">>, <<<<"hun", "cai">>, "720000000">>,
      <<<<"shui", "chan">>, "730000000">>, <<<<"zao", "can">>, "740000000">>,
      <<<<"zhu", "shi">>, "750000000">>, <<<<"tang", "lei">>, "760000000">>,
      <<<<"tian", "pin">>, "770000000">>, <<<<"yin", "liao">>, "780000000">>,
      <<<<"tiao", "liao">>, "790000000">> }

\* category in category_mapping
InCategoryMapping(name) == \E e \in CategoryMapping : e[1] = name

\* category_mapping with a mistyped id for 早餐
CategoryMappingAtTypo(name) ==
    IF name = <<"zao", "can">> THEN "704000000"
    ELSE (CHOOSE e \in CategoryMapping : e[1] = name)[2]

\* category_mapping[category]
CategoryMappingAt(name) == (CHOOSE e \in CategoryMapping : e[1] = name)[2]

\* difficulty_mapping of process_recipe: the int keys 1..5
DifficultyKeys == 1 .. 5

\* difficulty_mapping with the category ids (7.. for 6..)
DifficultyMappingAtCategoryIds(k) == Str(700000000 + k * 10000000)

DifficultyMappingAt(k) ==
    CASE k = 1 -> "610000000"
      [] k = 2 -> "620000000"
      [] k = 3 -> "630000000"
      [] k = 4 -> "640000000"
      [] k = 5 -> "650000000"

\* ----------------------------------------------------------------- state
VARIABLES
    concept_id_counter,   \* self.concept_id_counter
    concepts,             \* self.concepts
    relationships,        \* self.relationships
    predefined_concepts,  \* self.predefined_concepts
    issued,               \* the values generate_concept_id has returned, in order
    calls,                \* process_recipe calls made so far
    last,                 \* the last process_recipe call: its record and how it ended
    api,                  \* the call_kimi_api invocation in progress
    syn                   \* the synonym generation in progress

vars == <<concept_id_counter, concepts, relationships, predefined_concepts,
          issued, calls, last, api, syn>>

\* ------------------------------------------------- the extracted record
\* RecipeInfo as parse_recipe returns it.  Fields that process_recipe only
\* copies into the recipe concept (cuisine_type, prep_time, cook_time,
\* servings, file_path) are left out, and so are the fsn, preferred_term and
\* synonyms that the concepts derive from the name.
Recipe(name, tags, ingredients, steps, category, difficulty) ==
    [name |-> name, tags |-> tags, ingredients |-> ingredients, steps |-> steps,
     category |-> category, difficulty |-> difficulty]

\* IngredientInfo
Ingredient(name, amount, unit) == [name |-> name, amount |-> amount, unit |-> unit]

\* CookingStep
Step(n, methods, tools) == [step_number |-> n, methods |-> methods, tools |-> tools]

\* the record of a call whose parse_recipe raised: there is none
NoRecord == Recipe(NullV, NullV, <<>>, <<>>, NullV, NullV)

\* ------------------------------------------------------ process_recipe
\* The builder's mutable fields while one call runs; raised names the
\* statement that raised, "" while none has.
Builder(counter, cs, rs, ids) ==
    [counter |-> counter, concepts |-> cs, relationships |-> rs, issued |-> ids,
     raised |-> ""]

Raise(b, where) == [b EXCEPT !.raised = where]

\* generate_concept_id deriving the id from the number of stored concepts, the
\* way relationship ids are derived from the number of stored relationships
GenerateConceptIdFromLength(b) ==
    [b EXCEPT !.counter = b.counter + 1,
              !.issued = Append(b.issued, Str(ConceptIdBase + Len(b.concepts) + 1))]

\* generate_concept_id returning the counter as it was before the increment
GenerateConceptIdReturnsOld(b) ==
    [b EXCEPT !.counter = b.counter + 1,
              !.issued = Append(b.issued, Str(b.counter))]

\* generate_concept_id: increment, then return str(counter); the returned
\* value is the last element of issued
GenerateConceptId(b) ==
    [b EXCEPT !.counter = b.counter + 1,
              !.issued = Append(b.issued, Str(b.counter + 1))]

Returned(b) == b.issued[Len(b.issued)]

\* the relationship id without the + 1
NextRelationshipIdFromZero(b) == "R_" \o Format06d(Len(b.relationships))

\* f"R_{len(self.relationships) + 1:06d}"
NextRelationshipId(b) == "R_" \o Format06d(Len(b.relationships) + 1)

\* insert(0, c) in place of append(c)
AppendConceptInFront(b, c) == [b EXCEPT !.concepts = <<c>> \o b.concepts]

AppendConcept(b, c) == [b EXCEPT !.concepts = Append(b.concepts, c)]

AppendRelationship(b, r) == [b EXCEPT !.relationships = Append(b.relationships, r)]

\* lines 601-621: the recipe's id and concept.  Building the concept calls
\* _generate_recipe_synonyms(name), whose name.endswith raises on a name
\* that is no str, and ",".join(tags), which raises on tags that is no list.
RecipeConcept(b, rec) ==
    LET b1 == GenerateConceptId(b) IN
    IF rec.name.kind # "str" THEN Raise(b1, "recipe_synonyms")
    ELSE IF rec.tags.kind # "list" THEN Raise(b1, "recipe_tags")
    ELSE AppendConcept(b1,
            [concept_id |-> Returned(b1), concept_type |-> "Recipe",
             name |-> rec.name, category |-> rec.category,
             difficulty |-> rec.difficulty, tags |-> Join(rec.tags.val, ",")])

\* lines 622-646, one iteration: _generate_ingredient_synonyms looks the name
\* up in a dict, which raises on an unhashable name
IngredientStep(b, recipe_id, ing) ==
    LET b1 == GenerateConceptId(b) IN
    IF ~Hashable(ing.name) THEN Raise(b1, "ingredient_synonyms")
    ELSE LET b2 == AppendConcept(b1,
                      [concept_id |-> Returned(b1), concept_type |-> "Ingredient",
                       name |-> ing.name, amount |-> ing.amount, unit |-> ing.unit])
         IN AppendRelationship(b2,
               [relationship_id |-> NextRelationshipId(b2),
                source_id |-> recipe_id, target_id |-> Returned(b1),
                relationship_type |-> RelationshipTypeMapping.has_ingredient,
                amount |-> ing.amount, unit |-> ing.unit])

RECURSIVE IngredientLoop(_, _, _)
IngredientLoop(b, recipe_id, ings) ==
    IF b.raised # "" \/ ings = <<>> THEN b
    ELSE IngredientLoop(IngredientStep(b, recipe_id, Head(ings)), recipe_id, Tail(ings))

\* lines 649-672, one iteration: ",".join(step.methods) and
\* ",".join(step.tools) raise on a value that is no list
StepStep(b, recipe_id, step) ==
    LET b1 == GenerateConceptId(b) IN
    IF step.methods.kind # "list" THEN Raise(b1, "step_methods")
    ELSE IF step.tools.kind # "list" THEN Raise(b1, "step_tools")
    ELSE LET b2 == AppendConcept(b1,
                      [concept_id |-> Returned(b1), concept_type |-> "CookingStep",
                       step_number |-> step.step_number,
                       methods |-> Join(step.methods.val, ","),
                       tools |-> Join(step.tools.val, ",")])
         IN AppendRelationship(b2,
               [relationship_id |-> NextRelationshipId(b2),
                source_id |-> recipe_id, target_id |-> Returned(b1),
                relationship_type |-> RelationshipTypeMapping.has_step,
                step_order |-> step.step_number])

RECURSIVE StepLoop(_, _, _)
StepLoop(b, recipe_id, steps) ==
    IF b.raised # "" \/ steps = <<>> THEN b
    ELSE StepLoop(StepStep(b, recipe_id, Head(steps)), recipe_id, Tail(steps))

\* line 687: [cat.strip() for cat in category.split(',') if cat.strip()]
RECURSIVE StripNonEmpty(_)
StripNonEmpty(segs) ==
    IF segs = <<>> THEN <<>>
    ELSE (IF Strip(Head(segs)) # <<>> THEN <<Strip(Head(segs))>> ELSE <<>>)
         \o StripNonEmpty(Tail(segs))

Categories(category) == StripNonEmpty(Split(category, ","))

\* lines 688-695
RECURSIVE CategoryLoop(_, _, _)
CategoryLoop(b, recipe_id, cats) ==
    IF cats = <<>> THEN b
    ELSE CategoryLoop(
            IF InCategoryMapping(Head(cats))
            THEN AppendRelationship(b,
                    [relationship_id |-> NextRelationshipId(b),
                     source_id |-> recipe_id,
                     target_id |-> CategoryMappingAt(Head(cats)),
                     relationship_type |-> RelationshipTypeMapping.belongs_to_category])
            ELSE b,
            recipe_id, Tail(cats))

\* lines 674-695: category.split raises on a category that is no str
CategoryLinks(b, recipe_id, rec) ==
    IF b.raised # "" THEN b
    ELSE IF rec.category.kind # "str" THEN Raise(b, "category_split")
    ELSE CategoryLoop(b, recipe_id, Categories(rec.category.val))

\* lines 697-712: difficulty in difficulty_mapping hashes the value, which
\* raises on an unhashable one, and then compares it with the keys
DifficultyLink(b, recipe_id, rec) ==
    IF b.raised # "" THEN b
    ELSE IF ~Hashable(rec.difficulty) THEN Raise(b, "difficulty_lookup")
    ELSE IF \E k \in DifficultyKeys : EqualsIntKey(rec.difficulty, k)
    THEN AppendRelationship(b,
            [relationship_id |-> NextRelationshipId(b),
             source_id |-> recipe_id,
             target_id |-> DifficultyMappingAt(
                 CHOOSE k \in DifficultyKeys : EqualsIntKey(rec.difficulty, k)),
             relationship_type |-> RelationshipTypeMapping.has_difficulty])
    ELSE b

\* process_recipe with the steps loop ahead of the ingredients loop
BuildRecipeStepsFirst(b, rec) ==
    LET b1 == RecipeConcept(b, rec)
        recipe_id == Returned(b1)
    IN IF b1.raised # "" THEN b1
       ELSE DifficultyLink(
              CategoryLinks(
                IngredientLoop(StepLoop(b1, recipe_id, rec.steps),
                               recipe_id, rec.ingredients),
                recipe_id, rec),
              recipe_id, rec)

\* lines 600-714: process_recipe after parse_recipe has returned rec
BuildRecipe(b, rec) ==
    LET b1 == RecipeConcept(b, rec)
        recipe_id == Returned(b1)
    IN IF b1.raised # "" THEN b1
       ELSE DifficultyLink(
              CategoryLinks(
                StepLoop(IngredientLoop(b1, recipe_id, rec.ingredients),
                         recipe_id, rec.steps),
                recipe_id, rec),
              recipe_id, rec)

\* --------------------------------------------------------------- inputs
SeqsUpTo(S, n) == UNION { [1 .. k -> S] : k \in 0 .. n }

\* 红烧茄子的做法
DefaultName == StrV(<<"hong", "shao", "qie", "zi", "de", "zuo", "fa">>)

DefaultTags == ListV(<< <<"xiao", "huo">>, <<"shao", "you">> >>)

\* an ingredient with a str name, and one whose "name" came back as a list
IngredientValues ==
    { Ingredient(StrV(<<"qie", "zi">>), "2", "ge"),
      Ingredient(ListV(<< <<"qie", "zi">> >>), "", "") }

\* a full step (numbered 2 by the extraction), and a step whose "methods"
\* came back as null
StepValues ==
    { Step(2, ListV(<< <<"chao">>, <<"men">> >>), ListV(<< <<"chao", "guo">> >>)),
      Step(1, NullV, ListV(<<>>)) }

\* 早餐,素菜
DefaultCategory == StrV(<<"zao", "can", ",", "su", "cai">>)

DefaultDifficulty == IntV(3)

CanonicalNames == { e[1] : e \in CategoryMapping }

\* every string of at most MaxCategoryLen characters over 素, 菜, the comma
\* and the space
ShortCategories ==
    { StrV(cs) : cs \in SeqsUpTo({"su", "cai", ",", " "}, MaxCategoryLen) }

CategoryValues ==
    ShortCategories \cup
    { StrV(n) : n \in CanonicalNames } \cup
    { DefaultCategory,
      StrV(<<"zao", "can", ",", " ", "su", "cai">>),
      StrV(<<" ", "su", "cai", "tab">>),
      StrV(<<"zao", "can", ",", ",", "su", "cai", ",">>),
      StrV(<<"ban", "cheng", "pin">>),
      StrV(<<"zao", " ", "can">>),
      StrV(<<"zao", "can", "fullwidth-comma", "su", "cai">>),
      StrV(<<"su", "cai", ",", "su", "cai">>),
      StrV(<<"tang", "lei", ",", "ban", "cheng", "pin", ",", " ", ",", "tiao", "liao">>),
      NullV,
      ListV(<< <<"zao", "can">>, <<"su", "cai">> >>) }

DifficultyValues ==
    { IntV(d) : d \in 0 .. 6 } \cup
    { FloatV(30), FloatV(25), StrV(<<"3">>), BoolV(TRUE), NullV, ListV(<<IntV(3)>>) }

\* The records of a run of several calls: every shape of the ingredients and
\* steps lists, every way the recipe's own fields are malformed, and a
\* recognised, an unrecognised and a malformed category and difficulty.
Records ==
    { Recipe(DefaultName, DefaultTags, ings, steps, DefaultCategory, DefaultDifficulty) :
        ings \in SeqsUpTo(IngredientValues, MaxItems),
        steps \in SeqsUpTo(StepValues, MaxItems) } \cup
    { Recipe(n, t, <<>>, <<>>, DefaultCategory, DefaultDifficulty) :
        n \in {DefaultName, NullV}, t \in {DefaultTags, NullV} } \cup
    { Recipe(DefaultName, DefaultTags, <<>>, <<>>, c, DefaultDifficulty) :
        c \in {StrV(<<"ban", "cheng", "pin">>),
               ListV(<< <<"zao", "can">>, <<"su", "cai">> >>)} } \cup
    { Recipe(DefaultName, DefaultTags, <<>>, <<>>, DefaultCategory, d) :
        d \in {IntV(6), ListV(<<IntV(3)>>)} }

\* The records of the category and difficulty linkage: every category value
\* and every difficulty value, with the other fields at their defaults.
LinkRecords ==
    { Recipe(DefaultName, DefaultTags, <<>>, <<>>, c, DefaultDifficulty) :
        c \in CategoryValues } \cup
    { Recipe(DefaultName, DefaultTags, <<>>, <<>>, DefaultCategory, d) :
        d \in DifficultyValues }

\* -------------------------------------------------------------- actions
\* no call_kimi_api invocation is in progress
NoApiCall ==
    [pc |-> "idle", max_retries |-> 0, attempt |-> 0, requests |-> 0,
     service |-> <<>>, errors |-> <<>>, sleeps |-> <<>>, result |-> <<>>]

\* no synonym generation is in progress
NoSynonyms == [pc |-> "idle", input |-> <<>>, output |-> <<>>]

\* __init__
Init ==
    /\ concept_id_counter = ConceptIdBase
    /\ concepts = <<>>
    /\ relationships = <<>>
    /\ predefined_concepts = PredefinedConcepts
    /\ issued = <<>>
    /\ calls = 0
    /\ last = [outcome |-> "none", where |-> "", rec |-> NoRecord,
               counter |-> ConceptIdBase, nconcepts |-> 0, nrelationships |-> 0]
    /\ api = NoApiCall
    /\ syn = NoSynonyms

Call(outcome, where, rec) ==
    [outcome |-> outcome, where |-> where, rec |-> rec,
     counter |-> concept_id_counter, nconcepts |-> Len(concepts),
     nrelationships |-> Len(relationships)]

\* process_recipe, line 598 raises: call_kimi_api gave up, or json.loads or
\* the conversion to RecipeInfo failed
ProcessRecipeExtractionFails ==
    /\ calls < MaxCalls
    /\ calls' = calls + 1
    /\ last' = Call("raised", "parse_recipe", NoRecord)
    /\ UNCHANGED <<concept_id_counter, concepts, relationships,
                   predefined_concepts, issued, api, syn>>

\* process_recipe, parse_recipe returns rec
ProcessRecipe(rec) ==
    /\ calls < MaxCalls
    /\ LET b == BuildRecipe(
                  Builder(concept_id_counter, concepts, relationships, issued), rec)
       IN /\ concept_id_counter' = b.counter
          /\ concepts' = b.concepts
          /\ relationships' = b.relationships
          /\ issued' = b.issued
          /\ last' = Call(IF b.raised = "" THEN "returned" ELSE "raised", b.raised, rec)
    /\ calls' = calls + 1
    /\ UNCHANGED <<predefined_concepts, api, syn>>

Next ==
    \/ ProcessRecipeExtractionFails
    \/ \E rec \in Records : ProcessRecipe(rec)

Spec == Init /\ [][Next]_vars

\* runs over the category and difficulty values
NextLinks ==
    /\ calls < MaxLinkCalls
    /\ \E rec \in LinkRecords : ProcessRecipe(rec)

SpecLinks == Init /\ [][NextLinks]_vars

\* -------------------------------------------------------- call_kimi_api
\* what one chat.completions.create call, followed by the read of
\* response.choices[0].message.content, ends in: a content (None is a
\* content like any other) or an exception that `except Exception` catches
Contents == {"record", "None"}
ApiErrors == {"APITimeoutError", "RateLimitError", "IndexError"}

\* for attempt in range(max_retries): another iteration follows
InRange(attempt, max_retries) == attempt < max_retries

AnotherAttemptRemainsAlways(attempt, max_retries) == TRUE

\* if attempt < max_retries - 1
AnotherAttemptRemains(attempt, max_retries) == attempt < max_retries - 1

\* time.sleep(2 ** attempt)
Backoff(attempt) == 2 ^ attempt

\* the parser is called with max_retries = n
CallKimiApi(n) ==
    /\ api.pc = "idle"
    /\ api' = [api EXCEPT !.pc = "loop", !.max_retries = n, !.attempt = 0]

\* the request of this attempt succeeds: return the content
ApiReturns(content) ==
    /\ api.pc = "loop"
    /\ InRange(api.attempt, api.max_retries)
    /\ api' = [api EXCEPT !.pc = "returned",
                          !.requests = @ + 1,
                          !.service = Append(@, <<"ok", content>>),
                          !.result = <<content>>]

\* the request of this attempt raises: print it, and sleep if another
\* attempt remains
ApiFails(e) ==
    /\ api.pc = "loop"
    /\ InRange(api.attempt, api.max_retries)
    /\ IF AnotherAttemptRemains(api.attempt, api.max_retries)
       THEN api' = [api EXCEPT !.pc = "sleeping",
                               !.requests = @ + 1,
                               !.service = Append(@, <<"error", e>>),
                               !.errors = Append(@, <<api.attempt + 1, e>>),
                               !.sleeps = Append(@, Backoff(api.attempt))]
       ELSE api' = [api EXCEPT !.attempt = @ + 1,
                               !.requests = @ + 1,
                               !.service = Append(@, <<"error", e>>),
                               !.errors = Append(@, <<api.attempt + 1, e>>)]

\* time.sleep returns: the next iteration of the loop
ApiWakes ==
    /\ api.pc = "sleeping"
    /\ api' = [api EXCEPT !.pc = "loop", !.attempt = @ + 1]

\* the loop is exhausted: raise Exception("Kimi API调用失败")
ApiRaises ==
    /\ api.pc = "loop"
    /\ ~InRange(api.attempt, api.max_retries)
    /\ api' = [api EXCEPT !.pc = "raised"]

ApiStep ==
    \/ \E content \in Contents : ApiReturns(content)
    \/ \E e \in ApiErrors : ApiFails(e)
    \/ ApiWakes
    \/ ApiRaises

NextApi ==
    /\ \/ \E n \in 0 .. MaxRetries : CallKimiApi(n)
       \/ ApiStep
    /\ UNCHANGED <<concept_id_counter, concepts, relationships,
                   predefined_concepts, issued, calls, last, syn>>

\* every request is answered or fails and every sleep ends
SpecApi == Init /\ [][NextApi]_vars /\ WF_vars(NextApi)

\* ------------------------------------------------- language of a synonym
\* the characters that stand for one CJK ideograph, U+4E00 to U+9FFF
CjkChars ==
    {"bai", "bao", "bao2", "bei", "bo", "cai", "cai2", "chao", "chuan", "cu", "da", "de", "dong", "dou", "dun", "fa", "fan", "fang", "feng", "fu", "ge2", "guang", "hong", "hong2", "hu", "hu2", "jian", "jiao", "jing", "kao", "lao", "ling", "luo", "ma", "men", "men2", "nan", "nen", "peng", "qie", "qie2", "qing", "qing2", "ren", "shao", "shi2", "shi3", "shu", "si", "tang2", "tian", "tu", "wei", "xi", "xiang", "xiao", "yang", "you", "yu", "yu2", "yue", "zha", "zheng", "zhi", "zi", "zi2", "zuo", "zuo2"}

AsciiLetters ==
    {"a", "b", "c", "d", "e", "f", "g", "h", "i", "j", "k", "l", "m",
     "n", "o", "p", "q", "r", "s", "t", "u", "v", "w", "x", "y", "z",
     "A", "B", "C", "D", "E", "F", "G", "H", "I", "J", "K", "L", "M",
     "N", "O", "P", "Q", "R", "S", "T", "U", "V", "W", "X", "Y", "Z"}

\* one match of r'[a-zA-Z\s\-]'
MatchesEnglish(ch) == ch \in AsciiLetters \cup Whitespace \cup {"-"}

\* one match of r'[\u4e00-\u9fff]'
MatchesChinese(ch) == ch \in CjkChars

\* re.findall(r'[a-zA-Z\s\-]', text)
FindAllEnglish(text) == SelectSeq(text, MatchesEnglish)

\* re.findall(r'[\u4e00-\u9fff]', text)
FindAllChinese(text) == SelectSeq(text, MatchesChinese)

AtLeastSevenTenths(count, length) == count * 10 >= length * 7

\* count / length > 0.7 in float64: the quotient is the double nearest to
\* the ratio and 0.7 is the double nearest to seven tenths, so the
\* comparison is that of the exact ratio with 7/10 for every length below
\* 10^15
MoreThanSevenTenths(count, length) == count * 10 > length * 7

\* _is_english
IsEnglish(text) ==
    IF text # <<>>
    THEN MoreThanSevenTenths(Len(FindAllEnglish(text)), Len(text))
    ELSE FALSE

\* _is_chinese
IsChinese(text) == Len(FindAllChinese(text)) > 0

SynonymRecord(term, language, language_code) ==
    [term |-> term, language |-> language, language_code |-> language_code]

\* the record _categorize_synonyms_by_language appends for one synonym
Categorized(synonym) ==
    IF IsEnglish(synonym) THEN SynonymRecord(synonym, "en", "en-US")
    ELSE IF IsChinese(synonym) THEN SynonymRecord(synonym, "zh", "zh-CN")
    ELSE SynonymRecord(synonym, "zh", "zh-CN")

\* _categorize_synonyms_by_language
CategorizeSynonymsByLanguage(synonyms) ==
    [i \in DOMAIN synonyms |-> Categorized(synonyms[i])]

\* ----------------------------------------------- _generate_recipe_synonyms
\* key in name
Contains(name, key) ==
    \E i \in 1 .. Len(name) - Len(key) + 1 :
        SubSeq(name, i, i + Len(key) - 1) = key

\* name.endswith(suffix)
EndsWith(name, suffix) ==
    /\ Len(suffix) <= Len(name)
    /\ SubSeq(name, Len(name) - Len(suffix) + 1, Len(name)) = suffix

\* str.replace(old, new) for a non-empty old: every occurrence, found from
\* the left without overlap
RECURSIVE ReplaceFrom(_, _, _, _)
ReplaceFrom(name, old, new, i) ==
    IF i > Len(name) THEN <<>>
    ELSE IF /\ i + Len(old) - 1 <= Len(name)
            /\ SubSeq(name, i, i + Len(old) - 1) = old
         THEN new \o ReplaceFrom(name, old, new, i + Len(old))
         ELSE <<name[i]>> \o ReplaceFrom(name, old, new, i + 1)

Replace(name, old, new) == ReplaceFrom(name, old, new, 1)

Suffix == <<"de", "zuo", "fa">>

\* name.replace("的做法", "")
BaseName(name) == Replace(name, Suffix, <<>>)

\* lines 461-467
BaseNameSynonyms(name) ==
    IF EndsWith(name, Suffix)
    THEN << BaseName(name) \o <<"zhi", "zuo2", "fang", "fa">>,
            BaseName(name) \o <<"peng", "ren", "fang", "fa">>,
            BaseName(name) >>
    ELSE <<>>

\* cooking_method_mappings, in the dict's order
cooking_method_mappings ==
    << <<<<"hong", "shao">>,
           <<<<"b", "r", "a", "i", "s", "e", "d">>>>>>,
       <<<<"tang2", "cu">>,
           <<<<"s", "w", "e", "e", "t", " ", "a", "n", "d", " ", "s", "o", "u", "r">>>>>>,
       <<<<"qing2", "chao">>,
           <<<<"chao", "zhi">>,
             <<"s", "t", "i", "r", "-", "f", "r", "i", "e", "d">>>>>>,
       <<<<"zheng">>,
           <<<<"qing2", "zheng">>,
             <<"s", "t", "e", "a", "m", "e", "d">>>>>>,
       <<<<"dun">>,
           <<<<"bao2">>,
             <<"s", "t", "e", "w", "e", "d">>>>>>,
       <<<<"kao">>,
           <<<<"hong2", "kao">>,
             <<"r", "o", "a", "s", "t", "e", "d">>,
             <<"b", "a", "k", "e", "d">>>>>>,
       <<<<"zha">>,
           <<<<"you", "zha">>,
             <<"d", "e", "e", "p", "-", "f", "r", "i", "e", "d">>>>>>,
       <<<<"men">>,
           <<<<"men2">>,
             <<"b", "r", "a", "i", "s", "e", "d">>>>>>,
       <<<<"jian">>,
           <<<<"p", "a", "n", "-", "f", "r", "i", "e", "d">>>>>>,
       <<<<"bao", "chao">>,
           <<<<"s", "t", "i", "r", "-", "f", "r", "i", "e", "d">>>>>>,
       <<<<"bai", "qie2">>,
           <<<<"b", "o", "i", "l", "e", "d">>>>>>,
       <<<<"you", "men">>,
           <<<<"o", "i", "l", "-", "b", "r", "a", "i", "s", "e", "d">>>>>> >>

\* ingredient_aliases, in the dict's order
ingredient_aliases ==
    << <<<<"qie", "zi">>,
           <<<<"qing", "qie", "zi">>,
             <<"zi2", "qie", "zi">>,
             <<"e", "g", "g", "p", "l", "a", "n", "t">>>>>>,
       <<<<"tu", "dou">>,
           <<<<"ma", "ling", "shu">>,
             <<"yang", "yu2">>,
             <<"p", "o", "t", "a", "t", "o">>>>>>,
       <<<<"xi", "hong", "shi3">>,
           <<<<"fan", "qie">>,
             <<"t", "o", "m", "a", "t", "o">>>>>>,
       <<<<"qing", "jiao">>,
           <<<<"cai2", "jiao">>,
             <<"tian", "jiao">>,
             <<"b", "e", "l", "l", " ", "p", "e", "p", "p", "e", "r">>>>>>,
       <<<<"dou", "fu">>,
           <<<<"nen", "dou", "fu">>,
             <<"lao", "dou", "fu">>,
             <<"t", "o", "f", "u">>>>>>,
       <<<<"bai", "cai">>,
           <<<<"da", "bai", "cai">>,
             <<"xiao", "bai", "cai">>,
             <<"c", "a", "b", "b", "a", "g", "e">>>>>>,
       <<<<"luo", "bo">>,
           <<<<"bai", "luo", "bo">>,
             <<"hu", "luo", "bo">>,
             <<"r", "a", "d", "i", "s", "h">>>>>> >>

\* regional_mappings, in the dict's order
regional_mappings ==
    << <<<<"chuan", "wei">>,
           <<<<"si", "chuan", "feng", "wei">>,
             <<"chuan", "cai", "feng", "ge2">>>>>>,
       <<<<"yue", "shi2">>,
           <<<<"guang", "dong", "feng", "wei">>,
             <<"yue", "cai", "feng", "ge2">>>>>>,
       <<<<"jing", "wei">>,
           <<<<"bei", "jing", "feng", "wei">>,
             <<"jing", "cai", "feng", "ge2">>>>>>,
       <<<<"xiang", "wei">>,
           <<<<"hu2", "nan", "feng", "wei">>,
             <<"xiang", "cai", "feng", "ge2">>>>>> >>

\* the inner loop over the variants of one entry; the regional loop has no
\* `variant != key` test
RECURSIVE VariantLoop(_, _, _, _, _)
VariantLoop(name, key, variants, j, distinct) ==
    IF j > Len(variants) THEN <<>>
    ELSE LET synonym == Replace(name, key, variants[j])
         IN (IF (distinct => variants[j] # key) /\ synonym # name
             THEN <<synonym>> ELSE <<>>)
            \o VariantLoop(name, key, variants, j + 1, distinct)

\* the loop over the entries of one table
RECURSIVE TableLoop(_, _, _, _)
TableLoop(name, table, k, distinct) ==
    IF k > Len(table) THEN <<>>
    ELSE (IF Contains(name, table[k][1])
          THEN VariantLoop(name, table[k][1], table[k][2], 1, distinct)
          ELSE <<>>)
         \o TableLoop(name, table, k + 1, distinct)

\* the list `synonyms` at line 528
RecipeSynonymList(name) ==
    BaseNameSynonyms(name)
    \o TableLoop(name, cooking_method_mappings, 1, TRUE)
    \o TableLoop(name, ingredient_aliases, 1, TRUE)
    \o TableLoop(name, regional_mappings, 1, FALSE)

\* set(synonyms)
UniqueSynonyms(name) ==
    { RecipeSynonymList(name)[i] : i \in DOMAIN RecipeSynonymList(name) }

\* the returned list without its order: how many times each record is in it
RecordCounts(records) ==
    [r \in { records[i] : i \in DOMAIN records } |->
        Cardinality({ i \in DOMAIN records : records[i] = r })]

\* the order of list(set(synonyms)) changes from run to run with the hash
\* seed; every order gives the same records, each once
GenerateRecipeSynonyms(name) ==
    /\ syn.pc = "idle"
    /\ syn' = [pc |-> "recipe", input |-> <<name>>,
               output |-> [r \in { Categorized(t) : t \in UniqueSynonyms(name) }
                             |-> 1]]

\* _categorize_synonyms_by_language on a list of terms
CategorizeSynonyms(synonyms) ==
    /\ syn.pc = "idle"
    /\ syn' = [pc |-> "categorized", input |-> synonyms,
               output |-> RecordCounts(CategorizeSynonymsByLanguage(synonyms))]

\* ------------------------------------------------------ synonym inputs
NameParts ==
    { <<"hong", "shao">>, <<"qie", "zi">>, Suffix, <<"chuan", "wei">>,
      <<"you", "men">>, <<"zheng">>, <<"yu">> }

RECURSIVE Concat(_)
Concat(parts) ==
    IF parts = <<>> THEN <<>> ELSE Head(parts) \o Concat(Tail(parts))

RecipeNames == { Concat(parts) : parts \in SeqsUpTo(NameParts, MaxNameParts) }

TermChars == {"a", "Z", "-", " ", "1", "qie"}

Braised == <<"b", "r", "a", "i", "s", "e", "d">>

\* terms at and around the threshold
ThresholdTerms ==
    { <<>>,
      Braised \o <<"qie", "zi", "de", "zuo", "fa">>,
      Braised \o <<"qie", "zi", "yu">>,
      Braised \o <<" ", "qie", "zi">>,
      Braised \o <<"1", "2", "3">>,
      Braised }

TermLists ==
    { <<t>> : t \in SeqsUpTo(TermChars, MaxTermLen) }
    \cup SeqsUpTo(ThresholdTerms, 2)

NextSynonyms ==
    /\ \/ \E name \in RecipeNames : GenerateRecipeSynonyms(name)
       \/ \E synonyms \in TermLists : CategorizeSynonyms(synonyms)
    /\ UNCHANGED <<concept_id_counter, concepts, relationships,
                   predefined_concepts, issued, calls, last, api>>

SpecSynonyms == Init /\ [][NextSynonyms]_vars

\* ================================================================ claims
ConceptIds(cs) == { cs[i].concept_id : i \in DOMAIN cs }

PredefinedIds == ConceptIds(predefined_concepts)

RelationshipsOfType(type) ==
    { i \in DOMAIN relationships :
        relationships[i].relationship_type = RelationshipTypeMapping[type] }

\* the relationships the last call appended
AppendedRelationships == (last.nrelationships + 1) .. Len(relationships)

\* the concepts the last call appended
AppendedConcepts == (last.nconcepts + 1) .. Len(concepts)

\* C1: after any sequence of process_recipe calls, every relationship's
\* source_id and target_id are each the concept_id of a concept of the concepts
\* list or of predefined_concepts.
C1_ReferentialIntegrity ==
    \A i \in DOMAIN relationships :
        /\ relationships[i].source_id \in ConceptIds(concepts) \cup PredefinedIds
        /\ relationships[i].target_id \in ConceptIds(concepts) \cup PredefinedIds

\* two calls have run, the second ended by raising partway, and the store holds
\* relationships to created concepts and to predefined ones
C1_Witness ==
    /\ calls = 2
    /\ last.outcome = "raised" /\ last.where # "parse_recipe"
    /\ \E i \in DOMAIN relationships : relationships[i].target_id \in PredefinedIds
    /\ \E i \in DOMAIN relationships : relationships[i].target_id \in ConceptIds(concepts)

\* C2: across any sequence of process_recipe calls, failed ones included, no
\* concept id is issued twice, no two stored concepts share a concept_id, and no
\* issued id is the id of a predefined concept.
C2_IdsNeverReused ==
    /\ \A i, j \in DOMAIN issued : i # j => issued[i] # issued[j]
    /\ \A i, j \in DOMAIN concepts : i # j => concepts[i].concept_id # concepts[j].concept_id
    /\ \A i \in DOMAIN issued : issued[i] \notin PredefinedIds
    /\ ConceptIds(concepts) \subseteq { issued[i] : i \in DOMAIN issued }

\* a call that raised after taking an id was followed by a call that returned
C2_Witness ==
    /\ last.outcome = "returned"
    /\ last.nconcepts < last.counter - ConceptIdBase
    /\ Len(concepts) > last.nconcepts

\* C3: the k-th call of generate_concept_id on a fresh builder returns the
\* decimal string of 201000000 + k, and the returned values are pairwise
\* distinct.
C3_KthIdIsBasePlusK ==
    /\ \A k \in DOMAIN issued : issued[k] = Str(201000000 + k)
    /\ Len(issued) >= 1 => issued[1] = "201000001"
    /\ Len(issued) >= 3 => issued[3] = "201000003"
    /\ \A j, k \in DOMAIN issued : j # k => issued[j] # issued[k]
    /\ concept_id_counter = 201000000 + Len(issued)

\* generate_concept_id has been called four times or more
C3_Witness == Len(issued) >= 4

\* i as f"{i:06d}" writes it, case by case on the number of digits
SixDigits(i) ==
    CASE i < 10 -> "00000" \o ToString(i)
      [] i >= 10 /\ i < 100 -> "0000" \o ToString(i)
      [] i >= 100 /\ i < 1000 -> "000" \o ToString(i)
      [] i >= 1000 /\ i < 10000 -> "00" \o ToString(i)
      [] i >= 10000 /\ i < 100000 -> "0" \o ToString(i)
      [] OTHER -> ToString(i)

\* C4: the i-th relationship of the run, counted across all recipes, has
\* relationship_id "R_" followed by i zero-padded to six digits; the ids are
\* pairwise distinct.
C4_RelationshipIdsSequential ==
    /\ \A i \in DOMAIN relationships :
          relationships[i].relationship_id = "R_" \o SixDigits(i)
    /\ Len(relationships) >= 1 => relationships[1].relationship_id = "R_000001"
    /\ Len(relationships) >= 10 => relationships[10].relationship_id = "R_000010"
    /\ \A i, j \in DOMAIN relationships :
          i # j => relationships[i].relationship_id # relationships[j].relationship_id

\* the second recipe's relationships continue the first recipe's numbering, up
\* to a two-digit number
C4_Witness ==
    /\ calls = 2
    /\ last.nrelationships >= 5
    /\ Len(relationships) >= 10
    /\ relationships[1].source_id # relationships[10].source_id

\* ---- C5
\* the targets, in order, of the relationships of a type that the last call
\* appended
RECURSIVE TargetsFrom(_, _)
TargetsFrom(i, type) ==
    IF i > Len(relationships) THEN <<>>
    ELSE (IF relationships[i].relationship_type = RelationshipTypeMapping[type]
          THEN <<relationships[i].target_id>> ELSE <<>>) \o TargetsFrom(i + 1, type)

AppendedTargets(type) == TargetsFrom(last.nrelationships + 1, type)

\* the comma-separated segments of s, read off the positions of the commas
CommaBounds(s) == {0, Len(s) + 1} \cup { i \in 1 .. Len(s) : s[i] = "," }

SegmentAfter(s, a) ==
    LET next == CHOOSE n \in CommaBounds(s) :
                    n > a /\ \A m \in CommaBounds(s) : m > a => n <= m
    IN SubSeq(s, a + 1, next - 1)

\* seg without its leading and trailing whitespace: from its first to its last
\* character that is no whitespace
Trimmed(seg) ==
    LET solid == { i \in 1 .. Len(seg) : seg[i] \notin {" ", "tab"} } IN
    IF solid = {} THEN <<>>
    ELSE SubSeq(seg, CHOOSE i \in solid : \A j \in solid : i <= j,
                     CHOOSE i \in solid : \A j \in solid : i >= j)

\* the id of the predefined RecipeCategory concept of a name, <<>> if none
RecipeCategoryId(name) ==
    LET hits == { i \in DOMAIN predefined_concepts :
                    /\ predefined_concepts[i].concept_type = "RecipeCategory"
                    /\ predefined_concepts[i].name = name }
    IN IF hits = {} THEN <<>> ELSE <<predefined_concepts[CHOOSE i \in hits : TRUE].concept_id>>

RECURSIVE ExpectedFrom(_, _)
ExpectedFrom(s, starts) ==
    IF starts = {} THEN <<>>
    ELSE LET a == CHOOSE x \in starts : \A y \in starts : x <= y
         IN RecipeCategoryId(Trimmed(SegmentAfter(s, a))) \o ExpectedFrom(s, starts \ {a})

ExpectedCategoryTargets(s) == ExpectedFrom(s, CommaBounds(s) \ {Len(s) + 1})

\* C5: for a record whose category is a comma-separated string, one call
\* appends one belongs_to_category relationship per segment that, trimmed, is
\* the name of a predefined RecipeCategory concept, in segment order, from the
\* recipe to that concept; other segments give no relationship and no error;
\* "早餐,素菜" and "早餐, 素菜" both give the targets 740000000, 710000000.
C5_CategoryLinks ==
    (last.outcome # "none" /\ last.rec.category.kind = "str") =>
        /\ last.where # "category_split"
        /\ last.outcome = "returned" =>
            /\ AppendedTargets("belongs_to_category")
                  = ExpectedCategoryTargets(last.rec.category.val)
            /\ \A i \in AppendedRelationships :
                  relationships[i].source_id = concepts[last.nconcepts + 1].concept_id
            /\ last.rec.category.val
                  \in { <<"zao", "can", ",", "su", "cai">>,
                        <<"zao", "can", ",", " ", "su", "cai">> }
                  => AppendedTargets("belongs_to_category") = <<"740000000", "710000000">>

\* a call on "早餐, 素菜" has returned
C5_Witness ==
    /\ last.outcome = "returned"
    /\ last.rec.category = StrV(<<"zao", "can", ",", " ", "su", "cai">>)
    /\ Len(AppendedTargets("belongs_to_category")) = 2

\* ---- C6
\* the difficulty is an integer d: an int, or what Python takes for one (True
\* is 1, 3.0 equals 3)
IntegerValue(v) ==
    CASE v.kind = "int" -> <<v.val>>
      [] v.kind = "bool" -> <<IF v.val THEN 1 ELSE 0>>
      [] v.kind = "float" /\ v.val % 10 = 0 -> <<v.val \div 10>>
      [] OTHER -> <<>>

DifficultyLevelId(d) ==
    CASE d = 1 -> "610000000" [] d = 2 -> "620000000" [] d = 3 -> "630000000"
      [] d = 4 -> "640000000" [] d = 5 -> "650000000"

\* the last call got as far as the difficulty linkage: it returned, or it
\* raised in it
ReachedDifficulty ==
    \/ last.outcome = "returned"
    \/ last.outcome = "raised" /\ last.where = "difficulty_lookup"

\* C6: one call appends exactly one has_difficulty relationship when the
\* difficulty is an integer d with 1 <= d <= 5, from the recipe to the
\* DifficultyLevel concept of level d (3 gives 630000000); for any other
\* present value it appends none and does not raise.
C6_DifficultyLink ==
    ReachedDifficulty =>
        LET d == IntegerValue(last.rec.difficulty) IN
        IF d # <<>> /\ d[1] \in 1 .. 5
        THEN /\ last.outcome = "returned"
             /\ AppendedTargets("has_difficulty") = <<DifficultyLevelId(d[1])>>
             /\ relationships[Len(relationships)].source_id
                   = concepts[last.nconcepts + 1].concept_id
        ELSE /\ last.outcome = "returned"
             /\ AppendedTargets("has_difficulty") = <<>>

\* ---- C7
ConceptTypeOf(cs, id) ==
    { cs[i].concept_type : i \in { j \in DOMAIN cs : cs[j].concept_id = id } }

\* C7: no relationship has a predefined concept as its source (every source is
\* a Recipe concept that process_recipe created); a predefined concept is a
\* target only of belongs_to_category, as a RecipeCategory, and of
\* has_difficulty, as a DifficultyLevel.
C7_PredefinedOnlyAsTargets ==
    \A i \in DOMAIN relationships :
        LET r == relationships[i] IN
        /\ r.source_id \notin PredefinedIds
        /\ ConceptTypeOf(concepts, r.source_id) = {"Recipe"}
        /\ r.target_id \in PredefinedIds =>
            \/ /\ r.relationship_type = RelationshipTypeMapping.belongs_to_category
               /\ ConceptTypeOf(predefined_concepts, r.target_id) = {"RecipeCategory"}
            \/ /\ r.relationship_type = RelationshipTypeMapping.has_difficulty
               /\ ConceptTypeOf(predefined_concepts, r.target_id) = {"DifficultyLevel"}
        /\ r.relationship_type \in { RelationshipTypeMapping.belongs_to_category,
                                     RelationshipTypeMapping.has_difficulty }
              => r.target_id \in PredefinedIds

\* the store holds relationships of all four kinds, from two recipes
C7_Witness ==
    /\ calls = 2
    /\ \A t \in {"has_ingredient", "has_step", "belongs_to_category", "has_difficulty"} :
          RelationshipsOfType(t) # {}
    /\ Cardinality({ relationships[i].source_id : i \in DOMAIN relationships }) = 2

\* ---- C8
CountOfType(types) ==
    Cardinality({ i \in DOMAIN predefined_concepts :
                    predefined_concepts[i].concept_type \in types })

TopLevelTypes ==
    { predefined_concepts[i].concept_type : i \in DOMAIN predefined_concepts }
        \ {"Root", "DifficultyLevel", "RecipeCategory"}

PredefinedShape(topLevel) ==
    /\ CountOfType({"Root"}) = 1
    /\ CountOfType(TopLevelTypes) = topLevel
    /\ CountOfType({"DifficultyLevel"}) = 5
    /\ CountOfType({"RecipeCategory"}) = 9
    /\ Len(predefined_concepts) = 1 + topLevel + 5 + 9
    /\ \A i, j \in DOMAIN predefined_concepts :
          i # j => predefined_concepts[i].concept_id # predefined_concepts[j].concept_id
    /\ predefined_concepts = PredefinedConcepts

\* C8 as claimed: the predefined ontology is 1 Root concept, 5 top-level
\* type-anchor concepts, 5 DifficultyLevel concepts and 9 RecipeCategory
\* concepts with pairwise distinct ids, and no process_recipe call changes it.
C8_OntologyFiveTopLevel == PredefinedShape(5)

\* C8 as amended: the predefined ontology is 1 Root concept, 4 top-level
\* type-anchor concepts (Recipe, Ingredient, CookingMethod, CookingTool), 5
\* DifficultyLevel concepts and 9 RecipeCategory concepts, 19 in all, with
\* pairwise distinct ids, and no process_recipe call changes it.
C8_OntologyFourTopLevel ==
    /\ PredefinedShape(4)
    /\ TopLevelTypes = {"Recipe", "Ingredient", "CookingMethod", "CookingTool"}

\* two calls have run and the second has added a recipe to the store
C8_Witness ==
    /\ calls = 2
    /\ last.outcome = "returned"
    /\ Len(predefined_concepts) = 19

\* ---- C9
\* what the record of the last call amounts to when it is built whole
WholeRecipe ==
    /\ Len(concepts) = last.nconcepts + 1 + Len(last.rec.ingredients) + Len(last.rec.steps)
    /\ Len(relationships) >= last.nrelationships
                               + Len(last.rec.ingredients) + Len(last.rec.steps)

NothingOfRecipe ==
    /\ Len(concepts) = last.nconcepts
    /\ Len(relationships) = last.nrelationships

\* C9: each process_recipe call is atomic: when it ends, by returning or by
\* raising, the store holds every concept and relationship of its recipe or
\* none of them.
C9_CallsAtomic ==
    /\ last.outcome = "returned" => WholeRecipe
    /\ last.outcome = "raised" => NothingOfRecipe

\* ---- C10
IsPrefix(xs, ys) == Len(xs) <= Len(ys) /\ SubSeq(ys, 1, Len(xs)) = xs

\* C10: the store is append-only: every step leaves the concepts and
\* relationships that were in the lists unchanged in content and position, and
\* the lists never get shorter.
C10_AppendOnly ==
    [][IsPrefix(concepts, concepts') /\ IsPrefix(relationships, relationships')]_vars

\* a call has appended concepts and relationships to a store that held some
C10_Witness ==
    /\ last.nconcepts > 0 /\ Len(concepts) > last.nconcepts
    /\ last.nrelationships > 0 /\ Len(relationships) > last.nrelationships

\* ---- C11
\* the position in concepts of the j-th step of the last call's record
StepConceptAt(j) == last.nconcepts + 1 + Len(last.rec.ingredients) + j

\* C11: the store holds no CookingTool or CookingMethod concept made by
\* process_recipe and no requires_tool or uses_method relationship: every
\* relationship has the code of has_ingredient (801000001), has_step
\* (801000003), belongs_to_category (801000004) or has_difficulty (801000005),
\* and a step's methods and tools are comma-joined text fields of its
\* CookingStep concept.
C11_NoToolOrMethodConcepts ==
    /\ \A i \in DOMAIN concepts :
          concepts[i].concept_type \in {"Recipe", "Ingredient", "CookingStep"}
    /\ \A i \in DOMAIN relationships :
          /\ relationships[i].relationship_type
                \in {"801000001", "801000003", "801000004", "801000005"}
          /\ relationships[i].relationship_type
                \notin {"801000002", "801000006"}
    /\ last.outcome = "returned" =>
          \A j \in DOMAIN last.rec.steps :
              LET c == concepts[StepConceptAt(j)]
                  step == last.rec.steps[j]
              IN /\ c.concept_type = "CookingStep"
                 /\ step.methods.val # <<>> => Split(c.methods, ",") = step.methods.val
                 /\ step.tools.val # <<>> => Split(c.tools, ",") = step.tools.val
                 /\ step.methods.val = <<>> => c.methods = <<>>
                 /\ step.methods.val = << <<"chao">>, <<"men">> >>
                       => c.methods = <<"chao", ",", "men">>
                 /\ step.tools.val = << <<"chao", "guo">> >>
                       => c.tools = <<"chao", "guo">>

\* a call on a record with a step that names two methods and a tool has
\* returned
C11_Witness ==
    /\ last.outcome = "returned"
    /\ \E j \in DOMAIN last.rec.steps :
          /\ Len(last.rec.steps[j].methods.val) = 2
          /\ Len(last.rec.steps[j].tools.val) = 1
    /\ RelationshipsOfType("has_step") # {}

\* ---- C14
\* the position in concepts of the j-th ingredient of the last call's record
IngredientConceptAt(j) == last.nconcepts + 1 + j

\* the relationships of the last call that follow its has_ingredient and
\* has_step relationships
LinkRelationships ==
    (last.nrelationships + Len(last.rec.ingredients) + Len(last.rec.steps) + 1)
        .. Len(relationships)

C14_WitnessRaised ==
    /\ last.outcome = "raised" /\ last.where = "step_methods"
    /\ last.rec.ingredients # <<>>
    /\ Len(relationships) > last.nrelationships


\* ---- C15
ApiDone == api.pc \in {"returned", "raised"}

FailedAttempts == { a \in DOMAIN api.service : api.service[a][1] = "error" }

\* the 0-indexed failed attempts after which another attempt remained
BackedOff == { a \in 0 .. Len(api.service) - 1 :
                 /\ api.service[a + 1][1] = "error"
                 /\ a + 1 < api.max_retries }

\* at most max_retries requests; a return hands back the content of the
\* only successful request, which is the last one made; one sleep of 2^a
\* seconds after each failed attempt a that is not the last of the n; a raise
\* comes after exactly max_retries failed requests
C15_Safety ==
    /\ api.requests = Len(api.service)
    /\ api.requests <= api.max_retries
    /\ \A a \in DOMAIN api.service :
         api.service[a][1] = "ok" => a = Len(api.service) /\ api.pc = "returned"
    /\ api.pc = "returned" =>
         /\ api.service # <<>>
         /\ api.service[Len(api.service)][1] = "ok"
         /\ api.result = <<api.service[Len(api.service)][2]>>
    /\ api.pc # "returned" => api.result = <<>>
    /\ Len(api.sleeps) = Cardinality(BackedOff)
    /\ \A a \in BackedOff : api.sleeps[a + 1] = 2 ^ a
    /\ api.pc = "sleeping" => Len(api.service) - 1 \in BackedOff
    /\ api.pc = "raised" =>
         /\ Len(api.service) = api.max_retries
         /\ FailedAttempts = DOMAIN api.service
    /\ (Cardinality(FailedAttempts) = api.max_retries /\ api.pc # "idle"
        /\ api.pc # "loop") => api.pc = "raised"
    /\ Len(api.errors) = Cardinality(FailedAttempts)
    /\ \A a \in DOMAIN api.errors : api.errors[a] = <<a, api.service[a][2]>>

\* C15: an invocation of call_kimi_api with max_retries = n ends, in a
\* returned content or in a raise, after at most n requests; it returns the
\* content of the first successful request and requests nothing after; it
\* sleeps 2^a seconds after failed attempt a only if a is not the last of
\* the n; it raises exactly when n requests have failed
C15_RetriesThenReturnsOrRaises ==
    /\ []C15_Safety
    /\ [][ApiDone => api' = api]_vars
    /\ [][api.pc = "loop" /\ Cardinality(FailedAttempts) = api.max_retries
            => api'.pc = "raised"]_vars
    /\ (api.pc # "idle") ~> ApiDone

C15_Witness ==
    /\ api.pc = "returned"
    /\ api.max_retries = 3
    /\ api.requests = 3
    /\ api.sleeps = <<1, 2>>
    /\ api.result = <<"record">>

C15_WitnessRaised ==
    /\ api.pc = "raised"
    /\ api.max_retries = 3
    /\ api.requests = 3
    /\ api.sleeps = <<1, 2>>


\* ---- C13
\* the characters of a term that are ASCII letters, whitespace or '-'
EnglishPositions(term) ==
    { i \in DOMAIN term :
        \/ term[i] \in AsciiLetters
        \/ term[i] \in {" ", "tab"}
        \/ term[i] = "-" }

TaggedEnglish(r) == r.language = "en" /\ r.language_code = "en-US"

TaggedChinese(r) == r.language = "zh" /\ r.language_code = "zh-CN"

RecordsOf(term) == { r \in DOMAIN syn.output : r.term = term }

\* C13: every record that _categorize_synonyms_by_language produces is
\* tagged en / en-US exactly when its term is not empty and ten times the
\* number of its ASCII letters, whitespace and '-' is more than seven times
\* its length, and zh / zh-CN otherwise; the empty term and a term at exactly
\* seven tenths are tagged zh, and so is 'braised茄子的做法' with 7 of 12; the
\* call gives one record for each term of its list
C13_LanguageTag ==
    /\ \A r \in DOMAIN syn.output :
         LET count == Cardinality(EnglishPositions(r.term))
             english == r.term # <<>> /\ 10 * count > 7 * Len(r.term)
         IN /\ english => TaggedEnglish(r)
            /\ ~english => TaggedChinese(r)
            /\ (r.term # <<>> /\ 10 * count = 7 * Len(r.term))
                 => TaggedChinese(r)
            /\ r.term = <<>> => TaggedChinese(r)
            /\ r.term = <<"b", "r", "a", "i", "s", "e", "d",
                          "qie", "zi", "de", "zuo", "fa">>
                 => count = 7 /\ TaggedChinese(r)
    /\ syn.pc = "categorized" =>
         /\ \A i \in DOMAIN syn.input :
              /\ Cardinality(RecordsOf(syn.input[i])) = 1
              /\ \A r \in RecordsOf(syn.input[i]) :
                   syn.output[r] =
                     Cardinality({ j \in DOMAIN syn.input :
                                     syn.input[j] = syn.input[i] })
         /\ \A r \in DOMAIN syn.output :
              \E i \in DOMAIN syn.input : syn.input[i] = r.term

\* the empty term next to a term at exactly seven tenths
C13_Witness ==
    /\ syn.pc = "categorized"
    /\ syn.input = << <<>>, <<"b", "r", "a", "i", "s", "e", "d",
                            "qie", "zi", "yu">> >>
    /\ \A r \in DOMAIN syn.output : TaggedChinese(r)

C13_WitnessEnglish ==
    /\ syn.pc = "categorized"
    /\ syn.input = << <<"b", "r", "a", "i", "s", "e", "d", " ", "qie", "zi">>,
                      <<"b", "r", "a", "i", "s", "e", "d",
                        "qie", "zi", "de", "zuo", "fa">> >>
    /\ \E r \in DOMAIN syn.output : TaggedEnglish(r)
    /\ \E r \in DOMAIN syn.output : TaggedChinese(r)


\* ---- C12
\* the name without its ending '的做法'
StripSuffix(name) == SubSeq(name, 1, Len(name) - 3)

AliasTables == {cooking_method_mappings, ingredient_aliases, regional_mappings}

\* the name with the key of an entry replaced by an alias of that entry, for
\* the entries whose key is in the name
Substituted(name) ==
    { Replace(name, table[k][1], table[k][2][j]) :
        <<table, k, j>> \in
          { <<t, e, v>> \in AliasTables \X (1 .. 12) \X (1 .. 3) :
              /\ e \in DOMAIN t
              /\ v \in DOMAIN t[e][2]
              /\ Contains(name, t[e][1])
              /\ t[e][2][v] # t[e][1] } }

StrippedAndTemplated(name) ==
    IF EndsWith(name, <<"de", "zuo", "fa">>)
    THEN { StripSuffix(name),
           StripSuffix(name) \o <<"zhi", "zuo2", "fang", "fa">>,
           StripSuffix(name) \o <<"peng", "ren", "fang", "fa">> }
    ELSE {}

ReturnedTerms == { r.term : r \in DOMAIN syn.output }

\* C12: the terms _generate_recipe_synonyms returns for a name are the name
\* without its ending '的做法', that base followed by '制作方法' and by
\* '烹饪方法' (when the name has the ending), and the name with the key of
\* each table entry found in it replaced by each alias of the entry other
\* than the key; no term is returned twice, and the name is not returned
C12_RecipeSynonyms ==
    syn.pc = "recipe" =>
        LET name == syn.input[1]
        IN /\ ReturnedTerms = StrippedAndTemplated(name) \cup Substituted(name)
           /\ \A r \in DOMAIN syn.output : syn.output[r] = 1
           /\ \A r, q \in DOMAIN syn.output : r.term = q.term => r = q
           /\ name \notin ReturnedTerms
           /\ name = <<"hong", "shao", "qie", "zi", "de", "zuo", "fa">> =>
                /\ <<"hong", "shao", "qie", "zi">> \in ReturnedTerms
                /\ <<"b", "r", "a", "i", "s", "e", "d",
                     "qie", "zi", "de", "zuo", "fa">> \in ReturnedTerms

\* '的做法' is in the name as its ending and nowhere else, or not at all
SuffixOnlyAtEnd(name) ==
    \A i \in 1 .. Len(name) - 2 :
        SubSeq(name, i, i + 2) = <<"de", "zuo", "fa">> => i = Len(name) - 2

\* the statement of C12 for the names that have '的做法' at their end only
C12_RecipeSynonymsSuffixOnlyAtEnd ==
    (syn.pc = "recipe" /\ SuffixOnlyAtEnd(syn.input[1])) => C12_RecipeSynonyms

\* 的做法鱼的做法 gives 鱼, not 的做法鱼
C12_InnerSuffixRemoved ==
    /\ syn.pc = "recipe"
    /\ syn.input[1] = <<"de", "zuo", "fa", "yu", "de", "zuo", "fa">>
    /\ <<"yu">> \in ReturnedTerms
    /\ <<"de", "zuo", "fa", "yu">> \notin ReturnedTerms

====
